---- MODULE Spec2Model ----
(***************************************************************************)
(* A model of src/app/page.tsx: the PDF viewer page (PDFViewerPage), its   *)
(* per-page canvas renderer (PageCanvas) and the lazily loaded pdf.js      *)
(* library accessor (ensurePdfjs).                                         *)
(*                                                                         *)
(* Every action is one run-to-completion step of the browser's event loop: *)
(* an event handler or the continuation of an await, together with the     *)
(* React re-render and the effects that its state updates cause.  Event    *)
(* handlers are the closures of the latest committed render, so a handler  *)
(* reads the state as it is when the event is dispatched.                  *)
(*                                                                         *)
(* JavaScript numbers are IEEE 754 doubles.  A number is a record [m, e]   *)
(* that stands for m * 2^e, its mantissa m a natural number written in     *)
(* base 2^14, and every arithmetic operation rounds its exact result to    *)
(* the nearest double, as the processor does.  All numbers of the program  *)
(* are non-negative as long as the container is at least 16 pixels wide.   *)
(***************************************************************************)
EXTENDS Integers, Sequences, FiniteSets, TLC

\* ---------------------------------------------------------------- bounds
MaxLoads == 2
MaxPages == 2
MaxDraws == 2

\* ------------------------------------------------------- program constants
Null == 0
NullName == "null"
PdfType == "application/pdf"
MaxContainerWidth == 1200
InitialContainerWidth == 900
Padding == 16
MaxDpr == 2

StatusInitial == [text |-> "Henuz dosya secilmedi.", n |-> 0]
StatusLoading == [text |-> "PDF yukleniyor...", n |-> 0]
StatusFailed == [text |-> "Hata: PDF yuklenemedi.", n |-> 0]
StatusCleared == [text |-> "Temizlendi. Yeni bir PDF yukleyin.", n |-> 0]
StatusLoaded(n) == [text |-> "Yuklendi: n sayfa", n |-> n]

\* ------------------------------------------------------------- numbers
\* A natural number of any size: its digits in base 2^14, lowest first,
\* the highest not 0.
RECURSIVE Pow2(_)
Pow2(k) == IF k = 0 THEN 1 ELSE 2 * Pow2(k - 1)

Base == Pow2(14)

RECURSIVE Big(_)
Big(n) == IF n = 0 THEN <<>> ELSE <<n % Base>> \o Big(n \div Base)

RECURSIVE Small(_)
Small(a) == IF a = <<>> THEN 0 ELSE a[1] + Base * Small(Tail(a))

RECURSIVE Trim(_)
Trim(a) ==
  IF a = <<>> \/ a[Len(a)] # 0 THEN a ELSE Trim(SubSeq(a, 1, Len(a) - 1))

RECURSIVE Bits(_)
Bits(n) == IF n = 0 THEN 0 ELSE 1 + Bits(n \div 2)

BitLen(a) == IF a = <<>> THEN 0 ELSE 14 * (Len(a) - 1) + Bits(a[Len(a)])

\* a * k + c, for 0 <= k, c < Base
RECURSIVE TimesSmall(_, _, _)
TimesSmall(a, k, c) ==
  IF a = <<>> THEN Big(c)
  ELSE <<(a[1] * k + c) % Base>> \o TimesSmall(Tail(a), k, (a[1] * k + c) \div Base)

\* a + b + c, for c in 0..1
RECURSIVE Plus(_, _, _)
Plus(a, b, c) ==
  IF a = <<>> THEN TimesSmall(b, 1, c)
  ELSE IF b = <<>> THEN TimesSmall(a, 1, c)
  ELSE <<(a[1] + b[1] + c) % Base>> \o Plus(Tail(a), Tail(b), (a[1] + b[1] + c) \div Base)

\* a - b - c, for a >= b + c and c in 0..1; high zero digits are kept
RECURSIVE MinusDigits(_, _, _)
MinusDigits(a, b, c) ==
  IF a = <<>> THEN <<>>
  ELSE LET d == a[1] - (IF b = <<>> THEN 0 ELSE b[1]) - c
       IN  <<(d + Base) % Base>>
             \o MinusDigits(Tail(a), IF b = <<>> THEN <<>> ELSE Tail(b),
                            IF d < 0 THEN 1 ELSE 0)

Minus(a, b) == Trim(MinusDigits(a, b, 0))

\* a < b
RECURSIVE Below(_, _)
Below(a, b) ==
  IF Len(a) # Len(b) THEN Len(a) < Len(b)
  ELSE IF a = <<>> THEN FALSE
  ELSE IF a[Len(a)] # b[Len(b)] THEN a[Len(a)] < b[Len(b)]
  ELSE Below(SubSeq(a, 1, Len(a) - 1), SubSeq(b, 1, Len(b) - 1))

RECURSIVE Times(_, _)
Times(a, b) ==
  IF b = <<>> THEN <<>>
  ELSE LET high == Times(a, Tail(b))
       IN  Plus(TimesSmall(a, b[1], 0), IF high = <<>> THEN <<>> ELSE <<0>> \o high, 0)

\* a * 2^k
ShiftLeft(a, k) ==
  IF a = <<>> THEN <<>>
  ELSE [i \in 1..(k \div 14) |-> 0] \o TimesSmall(a, Pow2(k % 14), 0)

\* <<quotient, remainder>> of a by d, for 0 < d < Base
RECURSIVE DivModSmall(_, _)
DivModSmall(a, d) ==
  IF a = <<>> THEN << <<>>, 0 >>
  ELSE LET high == DivModSmall(Tail(a), d)
           x == high[2] * Base + a[1]
       IN  << Trim(<<x \div d>> \o high[1]), x % d >>

\* floor(a / 2^k)
ShiftRight(a, k) ==
  IF Len(a) <= k \div 14 THEN <<>>
  ELSE DivModSmall(SubSeq(a, k \div 14 + 1, Len(a)), Pow2(k % 14))[1]

Odd(a) == a # <<>> /\ a[1] % 2 = 1

\* JavaScript numbers, the non-negative IEEE 754 doubles: m * 2^e with m
\* odd and below 2^53, or m = 0 = e.
RECURSIVE TrailingZeros(_)
TrailingZeros(n) == IF n % 2 = 1 THEN 0 ELSE 1 + TrailingZeros(n \div 2)

Double(m, e) ==
  IF m = <<>> THEN [m |-> <<>>, e |-> 0]
  ELSE LET i == CHOOSE j \in 1..Len(m) : m[j] # 0 /\ \A l \in 1..(j - 1) : m[l] = 0
           t == 14 * (i - 1) + TrailingZeros(m[i])
       IN  [m |-> ShiftRight(m, t), e |-> e + t]

\* the double nearest to m * 2^e, ties to the even mantissa
Round(m, e) ==
  IF BitLen(m) <= 53 THEN Double(m, e)
  ELSE LET t == BitLen(m) - 53
           q == ShiftRight(m, t)
           rest == Minus(m, ShiftLeft(q, t))
           half == ShiftLeft(<<1>>, t - 1)
           up == Below(half, rest) \/ (rest = half /\ Odd(q))
       IN  Double(IF up THEN Plus(q, <<>>, 1) ELSE q, e + t)

Whole(n) == Double(Big(n), 0)

Less(a, b) ==
  LET e == IF a.e < b.e THEN a.e ELSE b.e
  IN  Below(ShiftLeft(a.m, a.e - e), ShiftLeft(b.m, b.e - e))

MathMax(a, b) == IF Less(a, b) THEN b ELSE a
MathMin(a, b) == IF Less(b, a) THEN b ELSE a

\* a + b
Add(a, b) ==
  LET e == IF a.e < b.e THEN a.e ELSE b.e
  IN  Round(Plus(ShiftLeft(a.m, a.e - e), ShiftLeft(b.m, b.e - e), 0), e)

\* a - b, for a >= b
Sub(a, b) ==
  LET e == IF a.e < b.e THEN a.e ELSE b.e
  IN  Round(Minus(ShiftLeft(a.m, a.e - e), ShiftLeft(b.m, b.e - e)), e)

\* a * b
Mul(a, b) == Round(Times(a.m, b.m), a.e + b.e)

\* a / b, for a divisor whose mantissa is below 2^14: the quotient to 56
\* bits and more, and a last bit that tells whether the division left a rest
Div(a, b) ==
  LET s == 70 + BitLen(b.m) - BitLen(a.m)
      qr == DivModSmall(ShiftLeft(a.m, s), Small(b.m))
      sticky == IF qr[2] = 0 THEN 0 ELSE 1
  IN  IF a.m = <<>> THEN a
      ELSE Round(TimesSmall(qr[1], 2, sticky), a.e - b.e - s - 1)

\* Math.floor, as an integer
MathFloor(x) ==
  IF x.e >= 0 THEN Small(ShiftLeft(x.m, x.e)) ELSE Small(ShiftRight(x.m, -x.e))

\* +(x).toFixed(2): the integer n nearest to 100 * x, the larger of two
\* nearest, then the double nearest to the decimal n / 100
ToFixed2(x) ==
  LET c == TimesSmall(x.m, 100, 0)
      n == IF x.e >= 0 THEN ShiftLeft(c, x.e)
           ELSE ShiftRight(Plus(c, ShiftLeft(<<1>>, -x.e - 1), 0), -x.e)
  IN  Div(Double(n, 0), Whole(100))

\* the double of the decimal literal n / d
Literal(n, d) == Div(Whole(n), Whole(d))

ZoomStep == Literal(1, 10)
ZoomMin == Literal(5, 10)
ZoomMax == Whole(3)
ZoomNeutral == Whole(1)

MinBaseScale == Literal(1, 10)

\* The files a user can hand over.  pages = 0: the bytes are no valid
\* document and pdf.js rejects the parse.
\* size: the native (scale 1) width and height of its pages, here one that
\* the initial fit width 884 is twice of, so that the scales are binary
\* fractions; InitDraw has the sizes whose scales are rounded.
HalfSheet == <<Whole(442), Whole(572)>>
Files ==
  { [name |-> "a.pdf", type |-> PdfType, pages |-> 1, size |-> HalfSheet],
    [name |-> "b.pdf", type |-> PdfType, pages |-> 2, size |-> HalfSheet],
    [name |-> "bad.pdf", type |-> PdfType, pages |-> 0, size |-> HalfSheet],
    [name |-> "notes.txt", type |-> "text/plain", pages |-> 0, size |-> HalfSheet] }

\* --------------------------------------------------------------- state
VARIABLES
  fileName,        \* useState: name of the selected file, or NullName
  status,          \* useState: the status line
  isBusy,          \* useState: a load is running
  pdfUrl,          \* useState: the blob URL of the selected file, or Null
  numPages,        \* useState: page count
  pdfDoc,          \* useState: the document handle (id of its load), or Null
  zoom,            \* useState: zoom factor
  containerWidth,  \* useState: container width reported by the ResizeObserver
  pdfjs,           \* _pdfjs: the library module is cached
  loads,           \* the loadFile calls so far, each with its position
  created,         \* URL.createObjectURL calls so far; URL u is the u-th
  revokeCalls,     \* URL.revokeObjectURL calls per URL
  devicePixelRatio,\* window.devicePixelRatio
  pages,           \* the PageCanvas mounted for each page number, if any
  draws,           \* the renderPage calls suspended at an await, oldest first
  rejected,        \* a renderPage call ended with a rejected promise
  workerConfigs,   \* runs of ensurePdfjs's lines 11-12, which configure the worker
  ignored,         \* onDrop has let a dropped file pass without loading it
  lastZoom         \* the toolbar's last zoom action and the zoom it found

vars ==
  <<fileName, status, isBusy, pdfUrl, numPages, pdfDoc, zoom, containerWidth,
    pdfjs, loads, created, revokeCalls, devicePixelRatio, pages, draws,
    rejected, workerConfigs, ignored, lastZoom>>

NoViewport == <<Whole(0), Whole(0)>>

\* a canvas showing nothing
Blank == [pdf |-> Null, viewport |-> NoViewport]

\* a page number without a PageCanvas; also the state of a fresh PageCanvas
\* (inst aside): not visible, no recorded size, a blank canvas never sized.
\* inst names the PageCanvas instance: the document whose load mounted it.
Unmounted ==
  [inst |-> 0, visible |-> FALSE, pageSize |-> <<0, 0>>,
   canvas |-> [width |-> 0, height |-> 0, styleWidth |-> 0, styleHeight |-> 0,
               painted |-> Blank]]

Init ==
  /\ fileName = NullName
  /\ status = StatusInitial
  /\ isBusy = FALSE
  /\ pdfUrl = Null
  /\ numPages = 0
  /\ pdfDoc = Null
  /\ zoom = ZoomNeutral
  /\ containerWidth = Whole(InitialContainerWidth)
  /\ pdfjs = FALSE
  /\ loads = <<>>
  /\ created = 0
  /\ revokeCalls = [u \in 1..MaxLoads |-> 0]
  /\ devicePixelRatio = Whole(1)
  /\ pages = [p \in 1..MaxPages |-> Unmounted]
  /\ draws = <<>>
  /\ rejected = FALSE
  /\ workerConfigs = 0
  /\ ignored = FALSE
  /\ lastZoom = [op |-> "none", from |-> ZoomNeutral]

\* ------------------------------------------------------ Page Surface Renderer

\* const dpr = Math.min(window.devicePixelRatio || 1, 2)
dpr ==
  MathMin(IF devicePixelRatio = Whole(0) THEN Whole(1) ELSE devicePixelRatio,
          Whole(MaxDpr))

\* fitWidth={containerWidth - 16}
FitWidthProp(cw) == Sub(cw, Whole(Padding))

\* page.getViewport({ scale }) of pdf.js on an unrotated page
getViewport(native, scale) ==
  <<Mul(native[1], scale), Mul(native[2], scale)>>

\* Math.max(0.1, fitWidth / vp1.width) * zoom
Scale(fw, nativeWidth, z) ==
  Mul(MathMax(MinBaseScale, Div(fw, nativeWidth)), z)

\* BackingStore computed from the floored logical size
BackingStore_FromCss(vp, d) ==
  <<MathFloor(Mul(Whole(MathFloor(vp[1])), d)),
    MathFloor(Mul(Whole(MathFloor(vp[2])), d))>>

\* canvas.width, canvas.height
BackingStore(vp, d) ==
  <<MathFloor(Mul(vp[1], d)), MathFloor(Mul(vp[2], d))>>

\* canvas.style.width, canvas.style.height and pageSize
CssSize(vp) == <<MathFloor(vp[1]), MathFloor(vp[2])>>

NativeSize(pdf) == loads[pdf].file.size

Vis == [p \in 1..MaxPages |-> pages[p].visible]

PageSeq == [p \in 1..MaxPages |-> p]

\* The render after a state update, and its effects: the page list is
\* mounted for 1..numPages while there is a document, and every PageCanvas
\* that stays mounted runs renderPage again when one of its dependencies
\* [pdf, pageNumber, fitWidth, zoom, dpr, visible] changed.  renderPage
\* returns at once unless visible; else it calls pdf.getPage and suspends.
Rerender(doc2, n2, zoom2, cw2, vis2) ==
  LET keep(p) == pages[p].inst # 0 /\ doc2 # Null /\ p <= n2
      fresh(p) == pages[p].inst = 0 /\ doc2 # Null /\ p <= n2
      runs(p) ==
        /\ keep(p)
        /\ vis2[p]
        /\ <<doc2, zoom2, cw2, vis2[p]>>
             # <<pdfDoc, zoom, containerWidth, pages[p].visible>>
      sel == SelectSeq(PageSeq, runs)
      started ==
        [k \in 1..Len(sel) |->
           [page |-> sel[k], inst |-> pages[sel[k]].inst, pdf |-> doc2,
            fitWidth |-> FitWidthProp(cw2), zoom |-> zoom2, dpr |-> dpr,
            pc |-> "getPage", viewport |-> NoViewport]]
  IN  /\ Len(draws) + Len(sel) <= MaxDraws
      /\ draws' = draws \o started
      /\ pages' =
           [p \in 1..MaxPages |->
              IF keep(p) THEN [pages[p] EXCEPT !.visible = vis2[p]]
              ELSE IF fresh(p) THEN [Unmounted EXCEPT !.inst = doc2]
              ELSE Unmounted]

\* draws without its d-th element
Remove(seq, d) == [k \in 1..(Len(seq) - 1) |-> IF k < d THEN seq[k] ELSE seq[k + 1]]

\* the IntersectionObserver callback of page p: setVisible(e.isIntersecting)
Intersect(p, b) ==
  /\ pages[p].inst # 0
  /\ Rerender(pdfDoc, numPages, zoom, containerWidth, [Vis EXCEPT ![p] = b])
  /\ UNCHANGED <<fileName, status, isBusy, pdfUrl, numPages, pdfDoc, zoom,
                 containerWidth, pdfjs, workerConfigs, loads, created, revokeCalls,
                 devicePixelRatio, ignored, rejected, lastZoom>>

\* the ResizeObserver callback: setContainerWidth(Math.min(1200, rect.width))
Resize(w) ==
  /\ containerWidth' = MathMin(Whole(MaxContainerWidth), w)
  /\ Rerender(pdfDoc, numPages, zoom, containerWidth', Vis)
  /\ UNCHANGED <<fileName, status, isBusy, pdfUrl, numPages, pdfDoc, zoom,
                 pdfjs, workerConfigs, loads, created, revokeCalls, devicePixelRatio, ignored, rejected,
                 lastZoom>>

\* the canvas of the PageCanvas that made the call is still mounted
Live(dr) == pages[dr.page].inst = dr.inst

\* lines 72-95 with canvasRef.current = page.canvas: the viewport handed to
\* page.render, and the PageCanvas with its canvas sized and its recorded
\* page size.  Assigning canvas.width clears the canvas.
SizeAndRender(page, dr, native) ==
  LET vp1 == getViewport(native, Whole(1))
      vp == getViewport(native, Scale(dr.fitWidth, vp1[1], dr.zoom))
      phys == BackingStore(vp, dr.dpr)
      css == CssSize(vp)
  IN  [viewport |-> vp,
       page |-> [page EXCEPT
                   !.canvas = [width |-> phys[1], height |-> phys[2],
                               styleWidth |-> css[1], styleHeight |-> css[2],
                               painted |-> Blank],
                   !.pageSize = css]]

\* renderPage after `await pdf.getPage(pageNumber)`, up to `await
\* page.render(...)`.  After an unmount canvasRef.current is null and
\* canvas.getContext throws.
GetPageResolved(d) ==
  /\ d \in 1..Len(draws)
  /\ draws[d].pc = "getPage"
  /\ IF ~Live(draws[d])
     THEN /\ draws' = Remove(draws, d)
          /\ rejected' = TRUE
          /\ UNCHANGED pages
     ELSE LET o == SizeAndRender(pages[draws[d].page], draws[d],
                                 NativeSize(draws[d].pdf))
          IN
            /\ pages' = [pages EXCEPT ![draws[d].page] = o.page]
            /\ draws' = [draws EXCEPT ![d].pc = "render", ![d].viewport = o.viewport]
            /\ UNCHANGED rejected
  /\ UNCHANGED <<fileName, status, isBusy, pdfUrl, numPages, pdfDoc, zoom,
                 containerWidth, pdfjs, workerConfigs, loads, created, revokeCalls,
                 devicePixelRatio, ignored, lastZoom>>

\* pdf.getPage rejects: renderPage ends rejected
GetPageRejected(d) ==
  /\ d \in 1..Len(draws)
  /\ draws[d].pc = "getPage"
  /\ draws' = Remove(draws, d)
  /\ rejected' = TRUE
  /\ UNCHANGED <<fileName, status, isBusy, pdfUrl, numPages, pdfDoc, zoom,
                 containerWidth, pdfjs, workerConfigs, loads, created, revokeCalls,
                 devicePixelRatio, ignored, pages, lastZoom>>

\* page.render(...).promise resolves: the page is painted on the canvas
RenderResolved(d) ==
  /\ d \in 1..Len(draws)
  /\ draws[d].pc = "render"
  /\ draws' = Remove(draws, d)
  /\ pages' =
       IF Live(draws[d])
       THEN [pages EXCEPT ![draws[d].page].canvas.painted =
               [pdf |-> draws[d].pdf, viewport |-> draws[d].viewport]]
       ELSE pages
  /\ UNCHANGED <<fileName, status, isBusy, pdfUrl, numPages, pdfDoc, zoom,
                 containerWidth, pdfjs, workerConfigs, loads, created, revokeCalls,
                 devicePixelRatio, ignored, rejected, lastZoom>>

\* page.render(...).promise rejects: renderPage ends rejected
RenderRejected(d) ==
  /\ d \in 1..Len(draws)
  /\ draws[d].pc = "render"
  /\ draws' = Remove(draws, d)
  /\ rejected' = TRUE
  /\ UNCHANGED <<fileName, status, isBusy, pdfUrl, numPages, pdfDoc, zoom,
                 containerWidth, pdfjs, workerConfigs, loads, created, revokeCalls,
                 devicePixelRatio, ignored, pages, lastZoom>>

\* ------------------------------------------------- Document Session Controller

\* RevokeOld that forgets the revocation
RevokeOld_Leak(url, calls) == calls

\* if (pdfUrl) URL.revokeObjectURL(pdfUrl)
RevokeOld(url, calls) ==
  IF url # Null THEN [calls EXCEPT ![url] = @ + 1] ELSE calls

\* loadFile, up to its first await that suspends.  With the library cached
\* `await ensurePdfjs()` resumes in the same task, at file.arrayBuffer().
loadFile(file) ==
  /\ Len(loads) < MaxLoads
  /\ revokeCalls' = RevokeOld(pdfUrl, revokeCalls)
  /\ created' = created + 1
  /\ pdfUrl' = created + 1
  /\ isBusy' = TRUE
  /\ status' = StatusLoading
  /\ fileName' = file.name
  /\ pdfDoc' = Null
  /\ numPages' = 0
  /\ loads' = Append(loads, [file |-> file, url |-> created + 1, imp |-> ~pdfjs,
                             pc |-> IF pdfjs THEN "arrayBuffer" ELSE "ensurePdfjs"])
  /\ Rerender(Null, 0, zoom, containerWidth, Vis)
  /\ UNCHANGED <<zoom, containerWidth, pdfjs, workerConfigs, devicePixelRatio, ignored, rejected>>

\* onInputChange; the picker button is disabled while busy
PickFile(f) ==
  /\ ~isBusy
  /\ loadFile(f)
  /\ UNCHANGED lastZoom

\* onDrop without the test of the file's type
DropFile_AnyType(f) ==
  /\ loadFile(f)
  /\ UNCHANGED lastZoom

\* onDrop: a file of another type is let pass
DropFile(f) ==
  /\ IF f.type = PdfType
     THEN loadFile(f)
     ELSE /\ ignored' = TRUE
          /\ UNCHANGED <<fileName, status, isBusy, pdfUrl, numPages, pdfDoc, zoom,
                         containerWidth, pdfjs, workerConfigs, loads, created,
                         revokeCalls, devicePixelRatio, pages, draws, rejected>>
  /\ UNCHANGED lastZoom

\* LoadFailed without the finally block
LoadFailed_NoFinally(S) ==
  /\ status' = StatusFailed
  /\ loads' = [i \in 1..Len(loads) |->
                 IF i \in S THEN [loads[i] EXCEPT !.pc = "failed"] ELSE loads[i]]
  /\ UNCHANGED <<fileName, isBusy, pdfUrl, numPages, pdfDoc, zoom, containerWidth,
                 created, revokeCalls, devicePixelRatio, ignored, pages, draws, rejected>>

\* catch (e) { ... } finally { ... } of the loads S whose await rejects
LoadFailed(S) ==
  /\ status' = StatusFailed
  /\ isBusy' = FALSE
  /\ loads' = [i \in 1..Len(loads) |->
                 IF i \in S THEN [loads[i] EXCEPT !.pc = "failed"] ELSE loads[i]]
  /\ UNCHANGED <<fileName, pdfUrl, numPages, pdfDoc, zoom, containerWidth,
                 created, revokeCalls, devicePixelRatio, ignored, pages, draws, rejected>>

\* the loads suspended in ensurePdfjs, at `await import("pdfjs-dist")`.
\* The module loader runs one load of the module for all of them, so their
\* imports settle together.
Importing == {i \in 1..Len(loads) : loads[i].pc = "ensurePdfjs"}

\* the import resolves: each waiting ensurePdfjs configures and caches the
\* module, and its loadFile goes on to file.arrayBuffer()
ImportResolved ==
  /\ Importing # {}
  /\ pdfjs' = TRUE
  /\ workerConfigs' = workerConfigs + Cardinality(Importing)
  /\ loads' = [i \in 1..Len(loads) |->
                 IF i \in Importing THEN [loads[i] EXCEPT !.pc = "arrayBuffer"]
                 ELSE loads[i]]
  /\ UNCHANGED <<fileName, status, isBusy, pdfUrl, numPages, pdfDoc, zoom,
                 containerWidth, created, revokeCalls, devicePixelRatio, ignored, pages,
                 draws, rejected, lastZoom>>

\* the import rejects
ImportRejected ==
  /\ Importing # {}
  /\ LoadFailed(Importing)
  /\ UNCHANGED <<pdfjs, workerConfigs, lastZoom>>

\* file.arrayBuffer() resolves; getDocument starts the parse
BufferResolved(i) ==
  /\ i \in 1..Len(loads)
  /\ loads[i].pc = "arrayBuffer"
  /\ loads' = [loads EXCEPT ![i].pc = "getDocument"]
  /\ UNCHANGED lastZoom
  /\ UNCHANGED <<fileName, status, isBusy, pdfUrl, numPages, pdfDoc, zoom,
                 containerWidth, pdfjs, workerConfigs, created, revokeCalls, devicePixelRatio, ignored,
                 pages, draws, rejected>>

\* file.arrayBuffer() rejects (the file is gone or unreadable)
BufferRejected(i) ==
  /\ i \in 1..Len(loads)
  /\ loads[i].pc = "arrayBuffer"
  /\ LoadFailed({i})
  /\ UNCHANGED <<pdfjs, workerConfigs, lastZoom>>

\* ParseResolved that stores the handle and forgets setNumPages
ParseResolved_NoPageCount(i) ==
  /\ i \in 1..Len(loads)
  /\ loads[i].pc = "getDocument"
  /\ loads[i].file.pages > 0
  /\ pdfDoc' = i
  /\ status' = StatusLoaded(loads[i].file.pages)
  /\ isBusy' = FALSE
  /\ loads' = [loads EXCEPT ![i].pc = "loaded"]
  /\ Rerender(i, numPages, zoom, containerWidth, Vis)
  /\ UNCHANGED lastZoom
  /\ UNCHANGED <<fileName, pdfUrl, numPages, zoom, containerWidth, pdfjs,
                 workerConfigs, created, revokeCalls, devicePixelRatio, ignored,
                 rejected>>

\* task.promise resolves
ParseResolved(i) ==
  /\ i \in 1..Len(loads)
  /\ loads[i].pc = "getDocument"
  /\ loads[i].file.pages > 0
  /\ pdfDoc' = i
  /\ numPages' = loads[i].file.pages
  /\ status' = StatusLoaded(loads[i].file.pages)
  /\ isBusy' = FALSE
  /\ loads' = [loads EXCEPT ![i].pc = "loaded"]
  /\ Rerender(i, loads[i].file.pages, zoom, containerWidth, Vis)
  /\ UNCHANGED lastZoom
  /\ UNCHANGED <<fileName, pdfUrl, zoom, containerWidth, pdfjs, workerConfigs, created,
                 revokeCalls, devicePixelRatio, ignored, rejected>>

\* task.promise rejects
ParseRejected(i) ==
  /\ i \in 1..Len(loads)
  /\ loads[i].pc = "getDocument"
  /\ loads[i].file.pages = 0
  /\ LoadFailed({i})
  /\ UNCHANGED <<pdfjs, workerConfigs, lastZoom>>

handleClear ==
  /\ revokeCalls' = RevokeOld(pdfUrl, revokeCalls)
  /\ pdfUrl' = Null
  /\ pdfDoc' = Null
  /\ numPages' = 0
  /\ fileName' = NullName
  /\ status' = StatusCleared
  /\ Rerender(Null, 0, zoom, containerWidth, Vis)
  /\ UNCHANGED <<isBusy, zoom, containerWidth, pdfjs, workerConfigs, loads, created,
                 devicePixelRatio, ignored, rejected>>

\* the toolbar, and with it the Clear button, is rendered only with a document
ClickClear ==
  /\ pdfDoc # Null
  /\ handleClear
  /\ UNCHANGED lastZoom

\* the Clear operation itself: handleClear called in any session state
Clear ==
  /\ handleClear
  /\ UNCHANGED lastZoom

\* ------------------------------------------------------------------ zoom
\* the updaters without toFixed, and without the clamp
zoomInUpdater_NoToFixed(z) == MathMin(ZoomMax, Add(z, ZoomStep))
zoomOutUpdater_NoClamp(z) == ToFixed2(Sub(z, ZoomStep))

zoomOutUpdater(z) == MathMax(ZoomMin, ToFixed2(Sub(z, ZoomStep)))
zoomInUpdater(z) == MathMin(ZoomMax, ToFixed2(Add(z, ZoomStep)))

\* the toolbar buttons exist only with a document
zoomOut ==
  /\ pdfDoc # Null
  /\ zoom' = zoomOutUpdater(zoom)
  /\ Rerender(pdfDoc, numPages, zoom', containerWidth, Vis)
  /\ lastZoom' = [op |-> "zoomOut", from |-> zoom]
  /\ UNCHANGED <<fileName, status, isBusy, pdfUrl, numPages, pdfDoc,
                 containerWidth, pdfjs, workerConfigs, loads, created, revokeCalls,
                 devicePixelRatio, ignored, rejected>>

zoomIn ==
  /\ pdfDoc # Null
  /\ zoom' = zoomInUpdater(zoom)
  /\ Rerender(pdfDoc, numPages, zoom', containerWidth, Vis)
  /\ lastZoom' = [op |-> "zoomIn", from |-> zoom]
  /\ UNCHANGED <<fileName, status, isBusy, pdfUrl, numPages, pdfDoc,
                 containerWidth, pdfjs, workerConfigs, loads, created, revokeCalls,
                 devicePixelRatio, ignored, rejected>>

\* fitWidth that only ever zooms in to 1
fitWidth_NeverShrinks ==
  /\ pdfDoc # Null
  /\ zoom' = MathMax(ZoomNeutral, zoom)
  /\ Rerender(pdfDoc, numPages, zoom', containerWidth, Vis)
  /\ lastZoom' = [op |-> "fitWidth", from |-> zoom]
  /\ UNCHANGED <<fileName, status, isBusy, pdfUrl, numPages, pdfDoc,
                 containerWidth, pdfjs, workerConfigs, loads, created, revokeCalls,
                 devicePixelRatio, ignored, rejected>>

fitWidth ==
  /\ pdfDoc # Null
  /\ zoom' = ZoomNeutral
  /\ Rerender(pdfDoc, numPages, zoom', containerWidth, Vis)
  /\ lastZoom' = [op |-> "fitWidth", from |-> zoom]
  /\ UNCHANGED <<fileName, status, isBusy, pdfUrl, numPages, pdfDoc,
                 containerWidth, pdfjs, workerConfigs, loads, created, revokeCalls,
                 devicePixelRatio, ignored, rejected>>

\* ---------------------------------------------------------- specifications

\* The session controller and its toolbar, with no page scrolled into view.
Next ==
  \/ \E f \in Files : PickFile(f)
  \/ \E f \in Files : DropFile(f)
  \/ ImportResolved
  \/ ImportRejected
  \/ \E i \in 1..MaxLoads : BufferResolved(i)
  \/ \E i \in 1..MaxLoads : BufferRejected(i)
  \/ \E i \in 1..MaxLoads : ParseResolved(i)
  \/ \E i \in 1..MaxLoads : ParseRejected(i)
  \/ ClickClear
  \/ zoomOut
  \/ zoomIn
  \/ fitWidth

Spec == Init /\ [][Next]_vars

\* The session controller alone; every await of a load settles.
NextSession ==
  \/ \E f \in Files : PickFile(f)
  \/ \E f \in Files : DropFile(f)
  \/ ImportResolved
  \/ ImportRejected
  \/ \E i \in 1..MaxLoads : BufferResolved(i)
  \/ \E i \in 1..MaxLoads : BufferRejected(i)
  \/ \E i \in 1..MaxLoads : ParseResolved(i)
  \/ \E i \in 1..MaxLoads : ParseRejected(i)
  \/ ClickClear

SpecLive ==
  /\ Init
  /\ [][NextSession]_vars
  /\ WF_vars(ImportResolved \/ ImportRejected)
  /\ \A i \in 1..MaxLoads :
       /\ WF_vars(BufferResolved(i) \/ BufferRejected(i))
       /\ WF_vars(ParseResolved(i) \/ ParseRejected(i))

\* The operations of the session controller, Load and Clear, called in every
\* session state, also where the page offers no button for them.
NextOps ==
  \/ \E f \in Files : PickFile(f)
  \/ \E f \in Files : DropFile(f)
  \/ ImportResolved
  \/ ImportRejected
  \/ \E i \in 1..MaxLoads : BufferResolved(i)
  \/ \E i \in 1..MaxLoads : BufferRejected(i)
  \/ \E i \in 1..MaxLoads : ParseResolved(i)
  \/ \E i \in 1..MaxLoads : ParseRejected(i)
  \/ Clear

SpecOps == Init /\ [][NextOps]_vars

\* The widths the container is resized to
RectWidths == {Whole(458)}

\* The files of one page
Documents == {f \in Files : f.pages = 1}

\* The page renderers, under loads that succeed.
NextRender ==
  \/ \E f \in Documents : PickFile(f)
  \/ \E f \in Documents : DropFile(f)
  \/ ImportResolved
  \/ \E i \in 1..MaxLoads : BufferResolved(i)
  \/ \E i \in 1..MaxLoads : ParseResolved(i)
  \/ ClickClear
  \/ \E p \in 1..MaxPages, b \in BOOLEAN : Intersect(p, b)
  \/ \E w \in RectWidths : Resize(w)
  \/ \E d \in 1..MaxDraws : GetPageResolved(d)
  \/ \E d \in 1..MaxDraws : GetPageRejected(d)
  \/ \E d \in 1..MaxDraws : RenderResolved(d)
  \/ \E d \in 1..MaxDraws : RenderRejected(d)

SpecRender == Init /\ [][NextRender]_vars

\* The inputs of one draw: page sizes (US Letter, A4 and A0 in points),
\* zoom levels, container widths and pixel ratios of the window
NativeSizes ==
  { <<Whole(612), Whole(792)>>, <<Whole(595), Whole(842)>>,
    <<Whole(2384), Whole(3370)>> }
ZoomLevel == [k \in 5..30 |-> Literal(k, 10)]
ZoomLevels == {ZoomLevel[k] : k \in 5..30}
ContainerWidths == {Whole(116), Whole(800), Whole(900), Literal(1801, 2), Whole(1200)}
DevicePixelRatios == {Whole(1), Literal(11, 10), Literal(3, 2), Whole(2), Whole(3)}

\* A one page document is loaded and shown at some zoom, container width and
\* pixel ratio; its page has come into view and its renderPage waits for
\* pdf.getPage.
InitDraw ==
  \E size \in NativeSizes, z \in ZoomLevels, cw \in ContainerWidths,
     ratio \in DevicePixelRatios :
    /\ fileName = "a.pdf"
    /\ status = StatusLoaded(1)
    /\ isBusy = FALSE
    /\ pdfUrl = 1
    /\ numPages = 1
    /\ pdfDoc = 1
    /\ zoom = z
    /\ containerWidth = cw
    /\ pdfjs = TRUE
    /\ loads = << [file |-> [name |-> "a.pdf", type |-> PdfType, pages |-> 1,
                             size |-> size],
                   url |-> 1, imp |-> TRUE, pc |-> "loaded"] >>
    /\ created = 1
    /\ revokeCalls = [u \in 1..MaxLoads |-> 0]
    /\ devicePixelRatio = ratio
    /\ pages = [p \in 1..MaxPages |->
                  IF p = 1 THEN [Unmounted EXCEPT !.inst = 1, !.visible = TRUE]
                  ELSE Unmounted]
    /\ draws = << [page |-> 1, inst |-> 1, pdf |-> 1,
                   fitWidth |-> FitWidthProp(cw), zoom |-> z,
                   dpr |-> MathMin(ratio, Whole(MaxDpr)),
                   pc |-> "getPage", viewport |-> NoViewport] >>
    /\ rejected = FALSE
    /\ workerConfigs = 1
    /\ ignored = FALSE
    /\ lastZoom =
         IF z = ZoomNeutral THEN [op |-> "none", from |-> ZoomNeutral]
         ELSE IF Less(z, ZoomMax) THEN [op |-> "zoomOut", from |-> ToFixed2(Add(z, ZoomStep))]
         ELSE [op |-> "zoomIn", from |-> ToFixed2(Sub(z, ZoomStep))]

\* One draw of a page, from each of these inputs.
NextDraw ==
  \/ \E d \in 1..MaxDraws : GetPageResolved(d)
  \/ \E d \in 1..MaxDraws : RenderResolved(d)

SpecDraw == InitDraw /\ [][NextDraw]_vars

\* ------------------------------------------------------------------ claims

\* C1: every blob URL created by a load is revoked exactly once, by the
\* next load or the next Clear: no URL is revoked twice, and the only URL
\* not yet revoked is the one of the most recent load, held in pdfUrl.
C1_UrlRevokedOnce ==
  /\ pdfUrl \in {Null, created}
  /\ \A u \in 1..MaxLoads :
       revokeCalls[u] = IF u <= created /\ u # pdfUrl THEN 1 ELSE 0

\* two loads and a Clear: both URLs are gone
C1_Witness ==
  /\ created = 2
  /\ pdfUrl = Null
  /\ revokeCalls[1] = 1
  /\ revokeCalls[2] = 1

\* The session states of the spec's state machine
Phase ==
  IF isBusy THEN "Loading"
  ELSE IF pdfDoc # Null THEN "Loaded"
  ELSE IF status = StatusFailed THEN "Failed"
  ELSE "Empty"

PhaseSteps ==
  { <<"Empty", "Loading">>, <<"Loading", "Loaded">>, <<"Loading", "Failed">>,
    <<"Loaded", "Empty">>, <<"Loaded", "Loading">>, <<"Failed", "Loading">> }

\* C2: the session only takes the transitions Empty->Loading,
\* Loading->Loaded, Loading->Failed, Loaded->Empty, Loaded->Loading and
\* Failed->Loading.
C2_OnlyListedTransitions ==
  [][Phase' = Phase \/ <<Phase, Phase'>> \in PhaseSteps]_vars

\* C3: when the parse of a load fails, the session shows the failure status
\* and holds no document: no handle, page count 0.
C3_FailureLeavesNoDocument ==
  [][\A i \in 1..MaxLoads :
       ParseRejected(i) => status' = StatusFailed /\ pdfDoc' = Null /\ numPages' = 0]_vars

Settles(i) ==
  /\ i \in 1..Len(loads)
  /\ loads[i].pc \notin {"loaded", "failed"}
  /\ loads'[i].pc \in {"loaded", "failed"}

\* C4: every load that is started settles, and the step in which it
\* settles, on success as on failure, clears the busy flag.
C4_BusyClearedOnCompletion ==
  /\ \A i \in 1..MaxLoads :
       (i <= Len(loads)) ~> (i <= Len(loads) /\ loads[i].pc \in {"loaded", "failed"})
  /\ [][\A i \in 1..MaxLoads : Settles(i) => ~isBusy']_vars

\* one load failed, one succeeded, and the flag is clear
C4_Witness ==
  /\ Len(loads) = 2
  /\ loads[1].pc = "failed"
  /\ loads[2].pc = "loaded"
  /\ ~isBusy

Inside(z) == Less(ZoomMin, z) /\ Less(z, ZoomMax)

\* C5: the zoom factor is one of the doubles of 0.5, 0.6, ..., 3.0, and a
\* zoom-in or zoom-out strictly inside the range moved it to the next one.
C5_ZoomOnGrid ==
  /\ zoom \in ZoomLevels
  /\ lastZoom.op = "zoomIn" /\ Inside(lastZoom.from)
       => \E k \in 6..29 : lastZoom.from = ZoomLevel[k] /\ zoom = ZoomLevel[k + 1]
  /\ lastZoom.op = "zoomOut" /\ Inside(lastZoom.from)
       => \E k \in 6..29 : lastZoom.from = ZoomLevel[k] /\ zoom = ZoomLevel[k - 1]

\* a zoom-in from 1.1 gave 1.2, where 1.1 + 0.1 is another double
C5_Witness ==
  /\ lastZoom = [op |-> "zoomIn", from |-> ZoomLevel[11]]
  /\ zoom = ZoomLevel[12]
  /\ Add(ZoomLevel[11], ZoomStep) # ZoomLevel[12]

\* C6: zoom-out at 0.5 leaves the zoom at 0.5, zoom-in at 3.0 leaves it at 3.0.
C6_IdempotentAtBounds ==
  /\ lastZoom = [op |-> "zoomOut", from |-> ZoomMin] => zoom = ZoomMin
  /\ lastZoom = [op |-> "zoomIn", from |-> ZoomMax] => zoom = ZoomMax

\* zoom-out was applied at 0.5
C6_Witness == lastZoom = [op |-> "zoomOut", from |-> ZoomMin]

\* C7: the fit-width action sets the zoom to exactly 1.0, whatever it was,
\* and changes nothing else of the session.
C7_FitWidthResetsZoomOnly ==
  [][fitWidth =>
       /\ zoom' = ZoomNeutral
       /\ UNCHANGED <<fileName, status, isBusy, pdfUrl, numPages, pdfDoc>>]_vars

\* fit-width was applied at zoom 0.5
C7_Witness ==
  /\ lastZoom = [op |-> "fitWidth", from |-> ZoomMin]
  /\ zoom = ZoomNeutral

\* C8 (claimed): a page renderer makes no draw call (page.render) while its
\* visibility signal is false, also when the signal changes while an earlier
\* render of the page is suspended on an await.
C8_NoDrawWhileHidden ==
  [][\A d \in 1..MaxDraws :
       GetPageResolved(d) /\ Live(draws[d]) => pages[draws[d].page].visible]_vars

\* C9 (claimed): for a density d in [1, 2] the backing store of a sized
\* canvas is floor(logicalWidth * d) x floor(logicalHeight * d), of the
\* logical (CSS) size set on the same canvas.
C9_BackingFromLogicalSize ==
  \A p \in 1..MaxPages :
    pages[p].pageSize # <<0, 0>> =>
      /\ pages[p].canvas.width = MathFloor(Mul(Whole(pages[p].canvas.styleWidth), dpr))
      /\ pages[p].canvas.height = MathFloor(Mul(Whole(pages[p].canvas.styleHeight), dpr))

\* C9 (amended): a draw sets the backing store to floor(vp.width * d) x
\* floor(vp.height * d), where vp is the scaled viewport it hands to
\* page.render, not floored; the logical (CSS) size it sets and records is
\* floor(vp.width) x floor(vp.height).
C9_BackingFromViewport ==
  [][\A d \in 1..MaxDraws :
       GetPageResolved(d) /\ Live(draws[d]) =>
         LET c == pages'[draws[d].page].canvas
             vp == draws'[d].viewport
             density == draws[d].dpr
         IN  /\ c.width = MathFloor(Mul(vp[1], density))
             /\ c.height = MathFloor(Mul(vp[2], density))
             /\ c.styleWidth = MathFloor(vp[1])
             /\ c.styleHeight = MathFloor(vp[2])
             /\ pages'[draws[d].page].pageSize = <<c.styleWidth, c.styleHeight>>]_vars

\* a draw at density 1.5 whose backing store is wider than floor(1.5 * logical)
C9_Witness ==
  /\ Len(draws) = 1
  /\ draws[1].pc = "render"
  /\ draws[1].dpr = Literal(3, 2)
  /\ pages[1].canvas.width > MathFloor(Mul(Whole(pages[1].canvas.styleWidth), dpr))

\* numerator and denominator of a double with few binary places
Numer(x) == IF x.e >= 0 THEN Small(ShiftLeft(x.m, x.e)) ELSE Small(x.m)
Denom(x) == IF x.e >= 0 THEN 1 ELSE Pow2(-x.e)

\* C10 (claimed): with scale = max(0.1, w / nativeWidth) * z a draw sets the
\* logical size floor(nativeWidth * scale) x floor(nativeHeight * scale); at
\* zoom 1.0 with w / nativeWidth >= 0.1 the logical width is w (its whole
\* pixels).
C10_LogicalSizeFromScale ==
  \A d \in 1..Len(draws) :
    draws[d].pc = "render" /\ Live(draws[d]) =>
      LET dr == draws[d]
          native == NativeSize(dr.pdf)
          nw == Numer(native[1])
          nh == Numer(native[2])
          wn == Numer(dr.fitWidth)
          wd == Denom(dr.fitWidth)
          k == CHOOSE j \in 5..30 : ZoomLevel[j] = dr.zoom
          wide == 10 * wn >= nw * wd
          c == pages[dr.page].canvas
      IN  /\ c.styleWidth = IF wide THEN (wn * k) \div (wd * 10) ELSE (nw * k) \div 100
          /\ c.styleHeight = IF wide THEN (nh * wn * k) \div (nw * wd * 10)
                                      ELSE (nh * k) \div 100
          /\ dr.zoom = ZoomNeutral /\ wide => c.styleWidth = MathFloor(dr.fitWidth)

\* ---------------------------------------------------------------- C11
\* C11: a drop of a file whose type is not application/pdf changes nothing of
\* the session, whatever state it is in: status, file name, document handle,
\* page count, busy flag and blob URL stay as they are, no blob URL is created
\* or revoked and no load (hence no parse) is started.
C11_ForeignDropIgnored ==
  [][\A f \in Files :
       (f.type # PdfType /\ DropFile(f)) =>
         UNCHANGED <<status, fileName, pdfDoc, numPages, isBusy, pdfUrl, created,
                     revokeCalls, loads, pdfjs, pages, draws>>]_vars

\* a foreign file has been dropped, and a load is running with an earlier
\* load's URL revoked
C11_Witness ==
  /\ ignored
  /\ isBusy
  /\ \E u \in 1..created : revokeCalls[u] = 1

\* ---------------------------------------------------------------- C12
\* a session with no document: no file was ever loaded, or it was cleared
EmptySession ==
  /\ pdfDoc = Null
  /\ pdfUrl = Null
  /\ fileName = NullName
  /\ numPages = 0
  /\ ~isBusy

\* C12: Clear on an empty session leaves the document state (handle, page
\* count, file name, blob URL) as it is, revokes no blob URL, and leaves the
\* status equal to the initial placeholder text.
C12_ClearOnEmptySession ==
  [][(EmptySession /\ Clear) =>
       /\ UNCHANGED <<pdfDoc, numPages, fileName, pdfUrl, revokeCalls>>
       /\ status' = StatusInitial]_vars

\* ---------------------------------------------------------------- C13
\* C13: no asynchronous operation ends rejected with nobody handling it: a
\* failed page fetch, a failed page draw and a draw that resumes after its
\* canvas was unmounted are all caught inside renderPage.
C13_NoUnhandledRejection == ~rejected

\* ---------------------------------------------------------------- C14
\* the surface of a PageCanvas as a successful draw leaves it (sized and
\* painted), or as it is before any draw (never sized, blank)
LastGoodOrBlank(pg) ==
  \/ pg.canvas.painted # Blank
  \/ /\ pg.canvas = Unmounted.canvas
     /\ pg.pageSize = <<0, 0>>

\* C14: when the page fetch or the draw call of a renderPage rejects, and no
\* other draw of that page is in flight, the surface of the page is the one
\* its last successful draw left, or blank and unsized if there was none.
\* In either case it is not a sized canvas with nothing painted on it.
C14_RejectionKeepsLastGood ==
  [][\A d \in 1..MaxDraws :
       ( /\ GetPageRejected(d) \/ RenderRejected(d)
         /\ Live(draws[d])
         /\ \A k \in 1..Len(draws) : k # d => draws[k].page # draws[d].page )
       => LastGoodOrBlank(pages'[draws[d].page])]_vars

\* ---------------------------------------------------------------- C15
\* the draws in flight onto the canvas of page p
DrawsInFlight(p) == {k \in 1..Len(draws) : draws[k].page = p /\ Live(draws[k])}

\* C15: once the overlapping draws of a page have all finished (none failed),
\* the whole surface comes from the one draw that painted last: the backing
\* store, the logical size and the recorded page size are those of the
\* viewport whose content is on the canvas.
C15_SurfaceFromOneDraw ==
  \A p \in 1..MaxPages :
    ( /\ pages[p].inst # 0
      /\ DrawsInFlight(p) = {}
      /\ ~rejected
      /\ pages[p].canvas.painted # Blank )
    => LET vp == pages[p].canvas.painted.viewport
           phys == BackingStore(vp, dpr)
           css == CssSize(vp)
       IN  /\ pages[p].canvas.width = phys[1]
           /\ pages[p].canvas.height = phys[2]
           /\ pages[p].canvas.styleWidth = css[1]
           /\ pages[p].canvas.styleHeight = css[2]
           /\ pages[p].pageSize = css

\* ---------------------------------------------------------------- C16
\* C16: a draw that paints a mounted canvas paints a page of the document
\* whose handle the session holds at that moment.
C16_PaintsCurrentDocument ==
  [][\A d \in 1..MaxDraws :
       (RenderResolved(d) /\ Live(draws[d])) => draws[d].pdf = pdfDoc]_vars

\* ---------------------------------------------------------------- C17
\* C17: the library is initialized at most once: callers of ensurePdfjs that
\* arrive before the first initialization has finished share it, and the
\* worker is configured no second time.
C17_LibraryInitializedOnce == workerConfigs <= 1

\* ---------------------------------------------------------------- C18
\* every loadFile call has run to its end
AllLoadsSettled == \A i \in 1..Len(loads) : loads[i].pc \in {"loaded", "failed"}

\* C18: once all loads have settled (and the session was not cleared since
\* the last one started), the handle, the page count and the status are the
\* outcome of the load started last, the one whose file name is displayed:
\* its document if it succeeded, no document and the failure text if not.
C18_LastStartedLoadWins ==
  ( /\ Len(loads) > 0
    /\ AllLoadsSettled
    /\ pdfUrl = loads[Len(loads)].url )
  => LET last == loads[Len(loads)]
     IN  /\ fileName = last.file.name
         /\ IF last.pc = "loaded"
            THEN /\ pdfDoc = Len(loads)
                 /\ numPages = last.file.pages
                 /\ status = StatusLoaded(last.file.pages)
            ELSE /\ pdfDoc = Null
                 /\ numPages = 0
                 /\ status = StatusFailed

\* ---------------------------------------------------------------- C19
\* C19: while a load is in flight (its parse has not settled) the busy flag
\* is true.
C19_BusyWhileLoading == ~AllLoadsSettled => isBusy

\* ---------------------------------------------------------------- C20
\* the page numbers that have a PageCanvas mounted
Mounted == {p \in 1..MaxPages : pages[p].inst # 0}

\* C20: the page count agrees with the handle: without a handle it is 0 and
\* no page renderer is mounted; with a handle it is the number of pages of
\* that document, and the mounted page renderers are those of pages 1 to
\* the page count.
C20_PageCountMatchesHandle ==
  IF pdfDoc = Null
  THEN /\ numPages = 0
       /\ Mounted = {}
  ELSE /\ numPages = loads[pdfDoc].file.pages
       /\ Mounted = 1..numPages

\* the two pages of b.pdf are mounted
C20_Witness ==
  /\ pdfDoc # Null
  /\ numPages = 2
  /\ Mounted = {1, 2}

====
